---- MODULE Spec2Model ----
(***************************************************************************)
(* Model of the Poker-Simulator hand evaluator (src/sim/hand_eval.py), the  *)
(* card alphabet (src/sim/cards.py) and the deck utility (src/sim/deck.py). *)
(*                                                                          *)
(* A card is the Python tuple (rank, suit), here the tuple <<rank, suit>>.  *)
(* Python's None is the empty tuple None.  A call's outcome is the record   *)
(* [raised, value]: raised = "none" and the returned value, or the kind of  *)
(* the ValueError raised and the empty tuple.                               *)
(***************************************************************************)
EXTENDS Integers, Sequences, FiniteSets, TLC

VARIABLES
    cards,      \* the hand input handed to the evaluator
    other,     \* the second hand of compareHands
    prev,       \* the outcome of the call before the last one
    vals,       \* the argument of checkConsecutive
    score1,     \* the arguments of compareScores
    score2,
    deck,       \* the deck, its top at the end
    dealt,      \* the cards returned by the deck so far, in order
    burned,     \* the cards burned so far, in order
    calls,      \* the number of deck calls made
    op,         \* the last operation called
    ret         \* its outcome

handVars == <<cards, other, prev>>

scoreVars == <<vals, score1, score2>>

deckVars == <<deck, dealt, burned, calls>>

vars == <<cards, other, prev, vals, score1, score2, deck, dealt, burned, calls, op, ret>>

(***************************************************************************)
(* cards.py                                                                 *)
(***************************************************************************)
RANKS == <<"2", "3", "4", "5", "6", "7", "8", "9", "T", "J", "Q", "K", "A">>

SUITS == <<"S", "H", "C", "D">>

None == <<>>

makeCard(rank, suit) == <<rank, suit>>

(***************************************************************************)
(* Python built-ins used by the evaluator                                   *)
(***************************************************************************)
SetMax(S) == CHOOSE x \in S : \A y \in S : y <= x

SetMin(S) == CHOOSE x \in S : \A y \in S : x <= y

Range(s) == {s[i] : i \in DOMAIN s}

\* the elements of a set, one after the other
RECURSIVE SetToSeq(_)
SetToSeq(S) ==
    IF S = {} THEN <<>>
    ELSE LET x == CHOOSE y \in S : TRUE IN <<x>> \o SetToSeq(S \ {x})

\* sorted(s): reverse=True forgotten
SortedAsc(s) == SortSeq(s, LAMBDA a, b : a < b)

\* the list left as it came: the sort forgotten
Unsorted(s) == s

\* sorted(s, reverse=True) of a list of integers (duplicates kept)
SortedDesc(s) == SortSeq(s, LAMBDA a, b : a > b)

\* sorted(s, reverse=True) of a set of integers
SortedSetDesc(S) == SortedDesc(SetToSeq(S))

\* the keys of Counter(s), in the order of their first occurrence
RECURSIVE CounterKeys(_)
CounterKeys(s) ==
    IF s = <<>> THEN <<>>
    ELSE LET front == CounterKeys(SubSeq(s, 1, Len(s) - 1))
             x == s[Len(s)]
         IN  IF x \in Range(front) THEN front ELSE Append(front, x)

\* Counter(s)[v]
Count(s, v) == Cardinality({i \in DOMAIN s : s[i] = v})

\* [v for v in s if v not in drop]
Without(s, drop) == SelectSeq(s, LAMBDA v : v \notin drop)

\* Python's ordering of tuples of integers: a > b
RECURSIVE TupleGT(_, _)
TupleGT(a, b) ==
    IF a = <<>> THEN FALSE
    ELSE IF b = <<>> THEN TRUE
    ELSE IF a[1] # b[1] THEN a[1] > b[1]
    ELSE TupleGT(Tail(a), Tail(b))

\* itertools.combinations(range(lo, n + 1), k), as index tuples in its order
RECURSIVE Combinations(_, _, _)
Combinations(lo, n, k) ==
    IF k = 0 THEN << <<>> >>
    ELSE IF lo > n THEN <<>>
    ELSE LET with == Combinations(lo + 1, n, k - 1)
         IN  [i \in 1..Len(with) |-> <<lo>> \o with[i]]
             \o Combinations(lo + 1, n, k)

(***************************************************************************)
(* Outcomes of a call                                                       *)
(***************************************************************************)
Return(v) == [raised |-> "none", value |-> v]

Raise(kind) == [raised |-> kind, value |-> <<>>]

\* hand_eval.py 77, 99: the Optional[int] None of the straight detectors
Absent == 0

(***************************************************************************)
(* hand_eval.py                                                             *)
(***************************************************************************)
\* {rank: index + 2}, the index counted from 0 (here from 1); @@ makes the
\* mapping a table
RANK_VALUE ==
    [r \in Range(RANKS) |-> (CHOOSE i \in DOMAIN RANKS : RANKS[i] = r) + 1] @@ <<>>

\* the card passes cardValue's checks (a tuple of two, its rank in RANK_VALUE)
CardOk(card) == Len(card) = 2 /\ card[1] \in DOMAIN RANK_VALUE

cardValue(card) ==
    IF CardOk(card) THEN Return(RANK_VALUE[card[1]]) ELSE Raise("InvalidCard")

\* values(cards), and the comprehension of scoreFive line 119
values(cs) ==
    IF \E i \in DOMAIN cs : ~CardOk(cs[i]) THEN Raise("InvalidCard")
    ELSE Return([i \in DOMAIN cs |-> RANK_VALUE[cs[i][1]]])

\* checkConsecutive without the Ace counted as 1: the wheel is no run
checkConsecutiveNoWheel(vs) ==
    IF Len(vs) < 5 THEN Absent
    ELSE LET s == Range(vs)
             sorted_vals == SortedSetDesc(s)
             hits == {i \in DOMAIN sorted_vals :
                        \A offset \in 0..4 : (sorted_vals[i] - offset) \in s}
         IN  IF hits = {} THEN Absent ELSE sorted_vals[SetMin(hits)]

checkConsecutive(vs) ==
    IF Len(vs) < 5 THEN Absent
    ELSE LET s0 == Range(vs)
             s == IF 14 \in s0 THEN s0 \cup {1} ELSE s0
             sorted_vals == SortedSetDesc(s)
             hits == {i \in DOMAIN sorted_vals :
                        \A offset \in 0..4 : (sorted_vals[i] - offset) \in s}
         IN  IF hits = {} THEN Absent
             ELSE LET high == sorted_vals[SetMin(hits)]
                  IN  IF high # 1 THEN high ELSE 5

\* straightFlush without the grouping by suit: a run over all cards counts
straightFlushAnySuit(cs) ==
    LET present == SelectSeq(cs, LAMBDA c : c # None)
    IN  IF \E i \in DOMAIN present : ~CardOk(present[i]) THEN Raise("InvalidCard")
        ELSE Return(checkConsecutive(SortedSetDesc(
                 {RANK_VALUE[present[i][1]] : i \in DOMAIN present})))

straightFlush(cs) ==
    LET present == SelectSeq(cs, LAMBDA c : c # None)
    IN  IF \E i \in DOMAIN present : ~CardOk(present[i]) THEN Raise("InvalidCard")
        ELSE LET suitKeys == CounterKeys([i \in DOMAIN present |-> present[i][2]])
                 suitVals(su) ==
                     LET mine == SelectSeq(present, LAMBDA c : c[2] = su)
                     IN  [i \in DOMAIN mine |-> RANK_VALUE[mine[i][1]]]
                 highs == [k \in DOMAIN suitKeys |->
                             checkConsecutive(SortedSetDesc(Range(suitVals(suitKeys[k]))))]
                 found == {highs[k] : k \in DOMAIN highs} \ {Absent}
             IN  Return(IF found = {} THEN Absent ELSE SetMax(found))

\* max(generator): ValueError on an empty one
MaxOf(s) ==
    IF s = <<>> THEN Raise("EmptyMax") ELSE Return(SetMax(Range(s)))

scoreFive(cs) ==
    LET v == values(cs)
    IN  IF v.raised # "none" THEN v
        ELSE
        LET vs == v.value
            suits == {cs[i][2] : i \in DOMAIN cs}
            keys == CounterKeys(vs)
            is_flush == Cardinality(suits) = 1
            is_straight == checkConsecutive(SortedSetDesc(Range(vs)))
            four == SelectSeq(keys, LAMBDA k : Count(vs, k) = 4)
            three == SelectSeq(keys, LAMBDA k : Count(vs, k) = 3)
            pairs == SortedDesc(SelectSeq(keys, LAMBDA k : Count(vs, k) = 2))
        IN  IF is_flush /\ is_straight # Absent THEN Return(<<8, <<is_straight>>>>)
            ELSE IF four # <<>> THEN
                LET kicker == MaxOf(Without(vs, {four[1]}))
                IN  IF kicker.raised # "none" THEN kicker
                    ELSE Return(<<7, <<four[1], kicker.value>>>>)
            ELSE IF three # <<>> /\ pairs # <<>> THEN
                Return(<<6, <<SetMax(Range(three)), pairs[1]>>>>)
            ELSE IF is_flush THEN Return(<<5, SortedDesc(vs)>>)
            ELSE IF is_straight # Absent THEN Return(<<4, <<is_straight>>>>)
            ELSE IF three # <<>> THEN
                LET tk == SetMax(Range(three))
                IN  Return(<<3, <<tk>> \o SortedDesc(Without(vs, {tk}))>>)
            ELSE IF Len(pairs) >= 2 THEN
                LET kicker == MaxOf(Without(vs, {pairs[1], pairs[2]}))
                IN  IF kicker.raised # "none" THEN kicker
                    ELSE Return(<<2, <<pairs[1], pairs[2], kicker.value>>>>)
            ELSE IF Len(pairs) = 1 THEN
                Return(<<1, <<pairs[1]>> \o SortedDesc(Without(vs, {pairs[1]}))>>)
            ELSE Return(<<0, SortedDesc(vs)>>)

\* compareScores deciding on the category and the first tiebreak element only
compareScoresFirstOnly(s1, s2) ==
    IF s1[1] # s2[1] THEN (IF s1[1] > s2[1] THEN 1 ELSE -1)
    ELSE IF s1[2][1] > s2[2][1] THEN 1
    ELSE IF s1[2][1] < s2[2][1] THEN -1
    ELSE 0

compareScores(s1, s2) ==
    IF s1[1] # s2[1] THEN (IF s1[1] > s2[1] THEN 1 ELSE -1)
    ELSE IF TupleGT(s1[2], s2[2]) THEN 1
    ELSE IF TupleGT(s2[2], s1[2]) THEN -1
    ELSE 0

\* combinations(filtered, 5) for the hand sizes bestHand searches
FiveOfSix == Combinations(1, 6, 5)

FiveOfSeven == Combinations(1, 7, 5)

FiveOf(n) == IF n = 6 THEN FiveOfSix ELSE FiveOfSeven

\* bestHand's loop with the comparison turned round: it keeps the weakest score
RECURSIVE BestFromWorst(_, _, _)
BestFromWorst(scores, i, best) ==
    IF i > Len(scores) THEN Return(best)
    ELSE IF scores[i].raised # "none" THEN scores[i]
    ELSE IF best = None \/ compareScores(scores[i].value, best) = -1
         THEN BestFromWorst(scores, i + 1, scores[i].value)
         ELSE BestFromWorst(scores, i + 1, best)

\* bestHand's loop without the comparison: it keeps the first combination's score
RECURSIVE BestFromFirst(_, _, _)
BestFromFirst(scores, i, best) ==
    IF i > Len(scores) THEN Return(best)
    ELSE IF scores[i].raised # "none" THEN scores[i]
    ELSE IF best = None
         THEN BestFromFirst(scores, i + 1, scores[i].value)
         ELSE BestFromFirst(scores, i + 1, best)

\* the loop of bestHand, lines 204-208, from combination i on; scores[i] is the
\* outcome of scoreFive on the i-th combination
RECURSIVE BestFrom(_, _, _)
BestFrom(scores, i, best) ==
    IF i > Len(scores) THEN Return(best)
    ELSE IF scores[i].raised # "none" THEN scores[i]
    ELSE IF best = None \/ compareScores(scores[i].value, best) = 1
         THEN BestFrom(scores, i + 1, scores[i].value)
         ELSE BestFrom(scores, i + 1, best)

\* bestHand without the filter: the absent placeholders are counted and scored
bestHandUnfiltered(cs) ==
    LET n == Len(cs)
    IN  IF n < 5 \/ n > 7 THEN Raise("InvalidHandSize")
        ELSE IF n = 5 THEN scoreFive(cs)
        ELSE LET combos == FiveOf(n)
                 scores == [i \in DOMAIN combos |->
                              scoreFive([j \in 1..5 |-> cs[combos[i][j]]])]
             IN  BestFrom(scores, 1, None)

bestHand(cs) ==
    LET filtered == SelectSeq(cs, LAMBDA c : c # None)
        n == Len(filtered)
    IN  IF n < 5 \/ n > 7 THEN Raise("InvalidHandSize")
        ELSE IF n = 5 THEN scoreFive(filtered)
        ELSE LET combos == FiveOf(n)
                 scores == [i \in DOMAIN combos |->
                              scoreFive([j \in 1..5 |-> filtered[combos[i][j]]])]
             IN  BestFrom(scores, 1, None)

compareHands(cards1, cards2) ==
    LET r1 == bestHand(cards1)
    IN  IF r1.raised # "none" THEN r1
        ELSE LET r2 == bestHand(cards2)
             IN  IF r2.raised # "none" THEN r2
                 ELSE Return(compareScores(r1.value, r2.value))

(***************************************************************************)
(* Inputs                                                                   *)
(***************************************************************************)
NoCall == Return(None)

IdleHand == cards = <<>> /\ other = <<>> /\ prev = NoCall

IdleScore == vals = <<>> /\ score1 = <<0, <<>>>> /\ score2 = <<0, <<>>>>

IdleDeck == deck = <<>> /\ dealt = <<>> /\ burned = <<>> /\ calls = 0

\* the entries of pool at the indices I, in pool order
RECURSIVE Pick(_, _)
Pick(pool, I) ==
    IF I = {} THEN <<>>
    ELSE LET m == SetMin(I) IN <<pool[m]>> \o Pick(pool, I \ {m})

Present(cs) == SelectSeq(cs, LAMBDA c : c # None)

\* the lists drawn from pool, in pool order, holding at most n cards
Sublists(pool, n) ==
    {Pick(pool, I) : I \in {S \in SUBSET DOMAIN pool :
                              Cardinality({i \in S : pool[i] # None}) <= n}}

\* the number of cards the evaluated hands are drawn from
PoolSize == 14

EvalCards ==
    << <<"A", "S">>, <<"K", "S">>, <<"Q", "S">>, <<"J", "S">>, <<"T", "S">>,
       <<"2", "H">>, <<"3", "H">>, <<"9", "S">>, <<"A", "H">>, <<"A", "D">>,
       <<"A", "C">>, <<"K", "H">>, <<"4", "D">>, <<"5", "C">>, <<"6", "C">>,
       <<"K", "D">>, <<"2", "S">>, <<"3", "S">> >>

\* the cards and one absent placeholder, which lands among the first entries
EvalPool == SubSeq(EvalCards, 1, 2) \o <<None>> \o SubSeq(EvalCards, 3, PoolSize)

(***************************************************************************)
(* The evaluator called on a hand input                                     *)
(***************************************************************************)
InitEval ==
    /\ cards \in Sublists(EvalPool, 7)
    /\ other = <<>> /\ prev = NoCall
    /\ IdleScore /\ IdleDeck
    /\ op = "init" /\ ret = NoCall

CallScoreFive ==
    /\ op = "init"
    /\ op' = "scoreFive"
    /\ ret' = scoreFive(cards)
    /\ UNCHANGED <<handVars, scoreVars, deckVars>>

CallBestHand ==
    /\ op = "init"
    /\ op' = "bestHand"
    /\ ret' = bestHand(cards)
    /\ UNCHANGED <<handVars, scoreVars, deckVars>>

CallStraightFlush ==
    /\ op = "init"
    /\ op' = "straightFlush"
    /\ ret' = straightFlush(cards)
    /\ UNCHANGED <<handVars, scoreVars, deckVars>>

\* the caller extends an evaluated hand of cards by one more card: bestHand(H + [c])
AddCard(c) ==
    /\ op = "bestHand"
    /\ ret.raised = "none"
    /\ Present(cards) = cards
    /\ Len(cards) < 7
    /\ c \notin Range(cards)
    /\ cards' = Append(cards, c)
    /\ prev' = ret
    /\ op' = "addCard"
    /\ ret' = bestHand(cards')
    /\ UNCHANGED <<other, scoreVars, deckVars>>

NextEval ==
    \/ CallScoreFive
    \/ CallBestHand
    \/ CallStraightFlush
    \/ \E c \in Range(EvalPool) \ {None} : AddCard(c)

Spec == InitEval /\ [][NextEval]_vars

(***************************************************************************)
(* Properties of the evaluator                                              *)
(***************************************************************************)
\* the sets of 5 positions of a list of n entries
FiveIndexSets(n) == {T \in SUBSET (1..n) : Cardinality(T) = 5}

RoyalSeven ==
    { <<"A", "S">>, <<"K", "S">>, <<"Q", "S">>, <<"J", "S">>, <<"T", "S">>,
      <<"2", "H">>, <<"3", "H">> }

\* C1: with 6 or 7 non-absent entries bestHand returns the score scoreFive gives
\* to one of their 5-card subsets, and compareScores finds no 5-card subset
\* better; with exactly 5 it returns scoreFive of them; A,K,Q,J,T of spades with
\* 2 and 3 of hearts yield (8, (14,)).
C1_BestHandIsMaximum ==
    op = "bestHand" =>
        LET filtered == Present(cards)
            n == Len(filtered)
            subsetScores == {scoreFive(Pick(filtered, T)) : T \in FiveIndexSets(n)}
        IN  /\ n \in 6..7 =>
                /\ ret.raised = "none"
                /\ ret \in subsetScores
                /\ \A s \in subsetScores : compareScores(s.value, ret.value) # 1
            /\ n = 5 => ret = scoreFive(filtered)
            /\ Range(filtered) = RoyalSeven => ret = Return(<<8, <<14>>>>)

C1_Witness ==
    /\ op = "bestHand"
    /\ Range(Present(cards)) = RoyalSeven
    /\ None \in Range(cards)
    /\ ret = Return(<<8, <<14>>>>)

\* C4: scoreFive called with valid cards whose number is not 5 fails with the
\* hand-size error and returns no Score.
C4_ScoreFiveRejectsWrongSize ==
    (op = "scoreFive" /\ Len(cards) # 5 /\ \A i \in DOMAIN cards : CardOk(cards[i]))
        => ret.raised = "InvalidHandSize"

\* the rank values a card can stand for in a run: an Ace also stands for 1
RunValues(card) ==
    IF RANK_VALUE[card[1]] = 14 THEN {1, 14} ELSE {RANK_VALUE[card[1]]}

\* the highest h with h, h-1, ..., h-4 all held in one suit; Absent if there is none
SuitRunHigh(cs) ==
    LET runs == {h \in 5..14 : \E su \in Range(SUITS) : \A k \in 0..4 :
                    \E c \in Range(cs) : c[2] = su /\ (h - k) \in RunValues(c)}
    IN  IF runs = {} THEN Absent ELSE SetMax(runs)

\* C8: on 5 to 7 distinct cards straightFlush returns the highest straight-high
\* value held in one suit, absent if there is none; it returns h exactly when
\* bestHand is (8, (h,)) and absent exactly when bestHand's category is below 8.
C8_StraightFlushAgrees ==
    (op = "straightFlush" /\ Len(Present(cards)) \in 5..7) =>
        LET b == bestHand(cards)
        IN  /\ ret.raised = "none" /\ b.raised = "none"
            /\ ret.value = SuitRunHigh(Present(cards))
            /\ ret.value # Absent <=> b.value = <<8, <<ret.value>>>>
            /\ ret.value = Absent <=> b.value[1] < 8

C8_Witness ==
    /\ op = "straightFlush"
    /\ Len(Present(cards)) = 7
    /\ <<"A", "S">> \notin Range(cards)
    /\ ret = Return(13)

\* C9: a further card never weakens a hand of 5 or 6 cards:
\* compareScores(bestHand(H + [c]), bestHand(H)) is 0 or 1.
C9_AddCardNeverWeakens ==
    op = "addCard" =>
        /\ ret.raised = "none" /\ prev.raised = "none"
        /\ compareScores(ret.value, prev.value) \in {0, 1}

C9_Witness ==
    /\ op = "addCard"
    /\ Len(cards) = 7
    /\ compareScores(ret.value, prev.value) = 1
    /\ compareScores(prev.value, ret.value) = -1

(***************************************************************************)
(* scoreFive called on five cards                                           *)
(***************************************************************************)
\* the number of ranks the five-card hands are drawn from
RankCount == 8

FiveRanks == <<"A", "2", "3", "4", "5", "6", "9", "K", "7", "Q">>

\* the cards of the first RankCount ranks of FiveRanks, suit by suit
FivePool ==
    [i \in 1..(RankCount * Len(SUITS)) |->
        makeCard(FiveRanks[((i - 1) % RankCount) + 1], SUITS[((i - 1) \div RankCount) + 1])]

InitFive ==
    /\ \E i1 \in DOMAIN FivePool : \E i2 \in (i1 + 1)..Len(FivePool) :
       \E i3 \in (i2 + 1)..Len(FivePool) : \E i4 \in (i3 + 1)..Len(FivePool) :
       \E i5 \in (i4 + 1)..Len(FivePool) :
           cards = <<FivePool[i1], FivePool[i2], FivePool[i3], FivePool[i4], FivePool[i5]>>
    /\ other = <<>> /\ prev = NoCall
    /\ IdleScore /\ IdleDeck
    /\ op = "init" /\ ret = NoCall

SpecFive == InitFive /\ [][CallScoreFive]_vars

\* the number of cards of cs with rank value v
Mult(cs, v) == Cardinality({c \in Range(cs) : RANK_VALUE[c[1]] = v})

\* t lists the set S from its largest element to its smallest
IsDescending(t, S) ==
    /\ Len(t) = Cardinality(S)
    /\ Range(t) = S
    /\ \A i, j \in DOMAIN t : i < j => t[i] > t[j]

\* the high card of the straight five distinct cards form; Absent if they form none
RunHigh(cs) ==
    LET V == {RANK_VALUE[c[1]] : c \in Range(cs)}
        highs == {h \in 6..14 : V = (h - 4)..h}
    IN  IF highs # {} THEN SetMax(highs)
        ELSE IF V = {14, 2, 3, 4, 5} THEN 5
        ELSE Absent

\* the category of five distinct cards: the first rule that matches
Category(cs) ==
    LET with(m) == {v \in 2..14 : Mult(cs, v) = m}
        flush == \E su \in Range(SUITS) : \A c \in Range(cs) : c[2] = su
        run == RunHigh(cs) # Absent
    IN  IF flush /\ run THEN 8
        ELSE IF with(4) # {} THEN 7
        ELSE IF with(3) # {} /\ with(2) # {} THEN 6
        ELSE IF flush THEN 5
        ELSE IF run THEN 4
        ELSE IF with(3) # {} THEN 3
        ELSE IF Cardinality(with(2)) = 2 THEN 2
        ELSE IF Cardinality(with(2)) = 1 THEN 1
        ELSE 0

\* tb is the tiebreak of category cat for the five distinct cards cs
IsTiebreak(cs, cat, tb) ==
    LET with(m) == {v \in 2..14 : Mult(cs, v) = m}
    IN  CASE cat \in {8, 4} -> tb = <<RunHigh(cs)>>
          [] cat = 7 -> Len(tb) = 2 /\ with(4) = {tb[1]} /\ with(1) = {tb[2]}
          [] cat = 6 -> Len(tb) = 2 /\ with(3) = {tb[1]} /\ with(2) = {tb[2]}
          [] cat \in {5, 0} -> Len(tb) = 5 /\ IsDescending(tb, with(1))
          [] cat = 3 -> Len(tb) = 3 /\ with(3) = {tb[1]}
                        /\ IsDescending(SubSeq(tb, 2, 3), with(1))
          [] cat = 2 -> Len(tb) = 3 /\ with(2) = {tb[1], tb[2]} /\ tb[1] > tb[2]
                        /\ with(1) = {tb[3]}
          [] cat = 1 -> Len(tb) = 4 /\ with(2) = {tb[1]}
                        /\ IsDescending(SubSeq(tb, 2, 4), with(1))

\* the two-pair hands of the ordering example: 9,9,4,4,2 and 9,9,5,5,K
NinesAndFours ==
    scoreFive(<< <<"9", "S">>, <<"9", "H">>, <<"4", "S">>, <<"4", "H">>, <<"2", "S">> >>).value

NinesAndFives ==
    scoreFive(<< <<"9", "S">>, <<"9", "H">>, <<"5", "S">>, <<"5", "H">>, <<"K", "S">> >>).value

\* C2: on 5 distinct cards scoreFive returns the category of the first matching
\* rule in the order 8..0 with that category's tiebreak; four equal values are
\* category 7, never 6; two-pair hands with the same higher pair are ordered by
\* the lower pair before the kicker.
C2_ScoreFiveCategories ==
    (op = "scoreFive" /\ Len(cards) = 5) =>
        /\ ret.raised = "none"
        /\ Len(ret.value) = 2
        /\ ret.value[1] = Category(cards)
        /\ IsTiebreak(cards, ret.value[1], ret.value[2])
        /\ (\E v \in 2..14 : Mult(cards, v) = 4) => ret.value[1] = 7
        /\ ret.value[1] = 2 =>
             \A o \in {NinesAndFours, NinesAndFives} :
                 (o[2][1] = ret.value[2][1] /\ o[2][2] # ret.value[2][2]) =>
                     compareScores(ret.value, o) =
                         (IF ret.value[2][2] > o[2][2] THEN 1 ELSE -1)
        /\ compareScores(NinesAndFives, NinesAndFours) = 1

\* 9,9,6,6,2 is scored: it beats 9,9,5,5,K on the lower pair, despite its
\* weaker kicker
C2_Witness ==
    /\ op = "scoreFive"
    /\ ret = Return(<<2, <<9, 6, 2>>>>)
    /\ compareScores(ret.value, NinesAndFives) = 1
    /\ compareScores(ret.value, NinesAndFours) = 1

(***************************************************************************)
(* bestHand called on absent, malformed and too few or too many entries     *)
(***************************************************************************)
\* eight cards, two absent placeholders, a rank outside the alphabet and a
\* tuple that is no pair
ErrPool ==
    << <<"A", "S">>, None, <<"K", "S">>, <<"1", "S">>, <<"Q", "S">>, <<"J", "S">>,
       <<"A", "S", "S">>, <<"T", "S">>, <<"9", "S">>, None, <<"2", "H">>, <<"2", "D">> >>

InitErr ==
    /\ cards \in Sublists(ErrPool, Len(ErrPool))
    /\ other = <<>> /\ prev = NoCall
    /\ IdleScore /\ IdleDeck
    /\ op = "init" /\ ret = NoCall

SpecErr == InitErr /\ [][CallBestHand]_vars

\* a pair whose rank is one of the 13 symbols
WellFormed(card) == Len(card) = 2 /\ \E i \in DOMAIN RANKS : RANKS[i] = card[1]

\* C5: bestHand returns a complete Score or fails: the absent entries are dropped
\* before counting; fewer than 5 or more than 7 remaining cards fail with the
\* hand-size error, whatever the raw length and before any card is validated;
\* otherwise a remaining card that is no pair or has a rank outside the alphabet
\* fails with the invalid-card error; otherwise a Score of category 0..8 returns.
C5_BestHandScoreOrError ==
    op = "bestHand" =>
        LET remaining == {i \in DOMAIN cards : cards[i] # None}
            n == Cardinality(remaining)
        IN  /\ ret.raised # "none" => ret.value = <<>>
            /\ (n < 5 \/ n > 7) => ret = Raise("InvalidHandSize")
            /\ (n \in 5..7 /\ \E i \in remaining : ~WellFormed(cards[i]))
                   => ret = Raise("InvalidCard")
            /\ (n \in 5..7 /\ \A i \in remaining : WellFormed(cards[i]))
                   => /\ ret.raised = "none"
                      /\ Len(ret.value) = 2
                      /\ ret.value[1] \in 0..8
                      /\ ret.value[2] # <<>>

\* a raw length within 5..7 only through placeholders, a malformed card among
\* the entries, and the hand-size error
C5_Witness ==
    /\ op = "bestHand"
    /\ Len(cards) \in 5..7
    /\ Cardinality({i \in DOMAIN cards : cards[i] # None}) < 5
    /\ \E i \in DOMAIN cards : cards[i] # None /\ ~WellFormed(cards[i])
    /\ ret = Raise("InvalidHandSize")

(***************************************************************************)
(* checkConsecutive called on distinct rank values                          *)
(***************************************************************************)
\* the sets of rank values 2..14, each as its callers pass it: sorted descending
InitConsec ==
    /\ vals \in {SortedSetDesc(S) : S \in SUBSET (2..14)}
    /\ score1 = <<0, <<>>>> /\ score2 = <<0, <<>>>>
    /\ IdleHand /\ IdleDeck
    /\ op = "init" /\ ret = NoCall

CallCheckConsecutive ==
    /\ op = "init"
    /\ op' = "checkConsecutive"
    /\ ret' = Return(checkConsecutive(vals))
    /\ UNCHANGED <<handVars, scoreVars, deckVars>>

SpecConsec == InitConsec /\ [][CallCheckConsecutive]_vars

\* rank value v is held by the set S, which holds 1 if it holds the Ace
Holds(S, v) == IF v = 1 THEN 14 \in S ELSE v \in S

\* C6: checkConsecutive returns the largest h with h, h-1, ..., h-4 all present,
\* the Ace counting as 1 at the bottom of a run only: 5 for the wheel (below the
\* 6-high straight), absent for fewer than 5 distinct values or no run, and no
\* run that wraps around the Ace (K-A-2-3-4, Q-K-A-2-3).
C6_CheckConsecutive ==
    op = "checkConsecutive" =>
        LET S == Range(vals)
            runs == {h \in 5..14 : \A k \in 0..4 : Holds(S, h - k)}
        IN  /\ ret.value = (IF runs = {} THEN Absent ELSE SetMax(runs))
            /\ Cardinality(S) < 5 => ret.value = Absent
            /\ S = {14, 2, 3, 4, 5} => ret.value = 5
            /\ S = {2, 3, 4, 5, 6} => ret.value = 6
            /\ S \in {{13, 14, 2, 3, 4}, {12, 13, 14, 2, 3}} => ret.value = Absent
            /\ ret.value # Absent =>
                   /\ ret.value \in 5..14
                   /\ \A k \in 0..3 : (ret.value - k) \in S
                   /\ (ret.value - 4) \in S \/ (ret.value = 5 /\ 14 \in S)

\* the wheel with a King on top of it: the run found is the 5-high one
C6_Witness ==
    /\ op = "checkConsecutive"
    /\ vals = <<14, 13, 5, 4, 3, 2>>
    /\ ret = Return(5)

(***************************************************************************)
(* compareScores called on two Scores                                       *)
(***************************************************************************)
\* the number of cards the compared Scores' hands are drawn from
CmpPoolSize == 12

\* the Scores of the 5-card hands of the first CmpPoolSize cards of EvalCards
ScoreSamples ==
    {scoreFive(Pick(EvalCards, T)).value : T \in FiveIndexSets(CmpPoolSize)}

InitCmp ==
    /\ score1 \in ScoreSamples
    /\ score2 \in ScoreSamples
    /\ vals = <<>>
    /\ IdleHand /\ IdleDeck
    /\ op = "init" /\ ret = NoCall

CallCompareScores ==
    /\ op = "init"
    /\ op' = "compareScores"
    /\ ret' = Return(compareScores(score1, score2))
    /\ UNCHANGED <<handVars, scoreVars, deckVars>>

SpecCmp == InitCmp /\ [][CallCompareScores]_vars

\* a is ahead of b at the first element in which they differ
AheadAtFirstDifference(a, b) ==
    \E i \in DOMAIN a \cap DOMAIN b :
        a[i] > b[i] /\ \A j \in 1..(i - 1) : a[j] = b[j]

\* C3: compareScores is a total order modulo ties on the Scores bestHand returns:
\* category first, then the tiebreaks element by element; the result is one of
\* 1, -1, 0; compareScores(a, a) = 0; compareScores(a, b) = -compareScores(b, a);
\* 0 only for the same Score; a >= b and b >= c imply a >= c.
C3_CompareScoresTotalOrder ==
    op = "compareScores" =>
        /\ ret.value \in {1, -1, 0}
        /\ score1[1] > score2[1] => ret.value = 1
        /\ score1[1] < score2[1] => ret.value = -1
        /\ score1[1] = score2[1] =>
               /\ ret.value = 1 <=> AheadAtFirstDifference(score1[2], score2[2])
               /\ ret.value = -1 <=> AheadAtFirstDifference(score2[2], score1[2])
        /\ score1 = score2 => ret.value = 0
        /\ ret.value = 0 => score1 = score2
        /\ ret.value = -compareScores(score2, score1)
        /\ \A c \in ScoreSamples :
               (ret.value >= 0 /\ compareScores(score2, c) >= 0)
                   => compareScores(score1, c) >= 0

\* two Scores of one category that agree on the first tiebreak element
C3_Witness ==
    /\ op = "compareScores"
    /\ score1[1] = score2[1]
    /\ score1[2][1] = score2[2][1]
    /\ ret = Return(-1)

(***************************************************************************)
(* bestHand and compareHands called on a hand collected in any order        *)
(***************************************************************************)
PermCards ==
    << <<"7", "S">>, <<"7", "H">>, <<"7", "C">>, <<"2", "S">>, <<"2", "H">>,
       <<"9", "S">>, <<"K", "D">> >>

\* the opposing hand as it is passed, and the same cards in another order and
\* without the placeholder
PermOpponent ==
    << <<"Q", "S">>, <<"5", "H">>, None, <<"Q", "H">>, <<"3", "D">>, <<"5", "S">>,
       <<"8", "C">> >>

PermOpponentSorted ==
    << <<"8", "C">>, <<"5", "S">>, <<"5", "H">>, <<"3", "D">>, <<"Q", "H">>,
       <<"Q", "S">> >>

InitPerm ==
    /\ cards = <<>>
    /\ other = PermOpponent
    /\ prev = NoCall
    /\ IdleScore /\ IdleDeck
    /\ op = "init" /\ ret = NoCall

\* the caller puts one more entry, a card or the placeholder, at the end of a
\* hand of at most 7 entries
Collect(entry) ==
    /\ op = "init"
    /\ Len(cards) < Len(PermCards)
    /\ entry \notin Range(cards)
    /\ cards' = Append(cards, entry)
    /\ UNCHANGED <<other, prev, scoreVars, deckVars, op, ret>>

CallCompareHands ==
    /\ op = "init"
    /\ op' = "compareHands"
    /\ ret' = compareHands(cards, other)
    /\ UNCHANGED <<handVars, scoreVars, deckVars>>

CallCompareHandsSwapped ==
    /\ op = "init"
    /\ op' = "compareHandsSwapped"
    /\ ret' = compareHands(other, cards)
    /\ UNCHANGED <<handVars, scoreVars, deckVars>>

NextPerm ==
    \/ \E entry \in Range(PermCards) \cup {None} : Collect(entry)
    \/ CallBestHand
    \/ CallCompareHands
    \/ CallCompareHandsSwapped

SpecPerm == InitPerm /\ [][NextPerm]_vars

\* the positions in PermCards of the cards of a hand
CardSet(cs) == {i \in DOMAIN PermCards : PermCards[i] \in Range(cs)}

\* for each set of 5 to 7 cards, listed in the order of PermCards, the outcomes
\* of bestHand, of compareHands against the opposing hand, and of compareHands
\* with the opposing hand first
InOrderOutcomes ==
    {<<S, bestHand(Pick(PermCards, S)),
          compareHands(Pick(PermCards, S), PermOpponentSorted),
          compareHands(PermOpponentSorted, Pick(PermCards, S))>> :
        S \in {T \in SUBSET DOMAIN PermCards : Cardinality(T) >= 5}}

InOrder(S) == CHOOSE o \in InOrderOutcomes : o[1] = S

\* C7: bestHand depends on the set of non-absent cards only: every order of a
\* hand of 5 to 7 cards, with or without a placeholder anywhere, yields the same
\* Score, and compareHands is unchanged when either argument is reordered.
C7_OrderIndependent ==
    Cardinality(CardSet(cards)) \in 5..7 =>
        /\ op = "bestHand" =>
               ret.raised = "none" /\ ret = InOrder(CardSet(cards))[2]
        /\ op = "compareHands" =>
               ret.raised = "none" /\ ret = InOrder(CardSet(cards))[3]
        /\ op = "compareHandsSwapped" =>
               ret.raised = "none" /\ ret = InOrder(CardSet(cards))[4]

\* a pair with its kickers collected in ascending order, the placeholder between
C7_Witness ==
    /\ op = "bestHand"
    /\ cards = << <<"2", "S">>, <<"7", "S">>, None, <<"9", "S">>, <<"K", "D">>, <<"7", "H">> >>
    /\ ret = Return(<<1, <<7, 13, 9, 2>>>>)

(***************************************************************************)
(* deck.py                                                                  *)
(***************************************************************************)
newDeck ==
    [i \in 1..(Len(SUITS) * Len(RANKS)) |->
        makeCard(RANKS[((i - 1) % Len(RANKS)) + 1], SUITS[((i - 1) \div Len(RANKS)) + 1])]
    \o <<>>

\* dealOne taking the card at the front of the list: deck.pop(0)
dealOneFromFront(d) ==
    IF d # <<>> THEN [out |-> d[1], deck |-> Tail(d)]
    ELSE [out |-> None, deck |-> d]

\* dealOne: the card returned and the deck left
dealOne(d) ==
    IF d # <<>> THEN [out |-> d[Len(d)], deck |-> SubSeq(d, 1, Len(d) - 1)]
    ELSE [out |-> None, deck |-> d]

\* the loop of burn, num >= 0: it pops min(num, len(deck)) cards; the cards
\* removed in order and the deck left
burn(d, num) ==
    LET n == IF num < Len(d) THEN num ELSE Len(d)
    IN  [gone |-> [k \in 1..n |-> d[Len(d) - k + 1]],
         deck |-> SubSeq(d, 1, Len(d) - n)]

\* the loop of deal, num >= 0: num calls of dealOne; the list returned and the
\* deck left
deal(d, num) ==
    LET n == IF num < Len(d) THEN num ELSE Len(d)
    IN  [out |-> [k \in 1..num |-> IF k <= Len(d) THEN d[Len(d) - k + 1] ELSE None],
         deck |-> SubSeq(d, 1, Len(d) - n)]

\* the loops of dealPlayers: two rounds of one card to each player
dealPlayers(d, players) ==
    LET all == deal(d, 2 * players)
    IN  [out |-> [i \in 1..players |-> <<all.out[i], all.out[players + i]>>],
         deck |-> all.deck]

\* burn(deck, 1) and then deal(deck, num)
burnAndDeal(d, num) ==
    LET b == burn(d, 1)
        dl == deal(b.deck, num)
    IN  [gone |-> b.gone, out |-> dl.out, deck |-> dl.deck]

(***************************************************************************)
(* The deck dealt from                                                      *)
(***************************************************************************)
\* the number of calls made on one deck
MaxCalls == 4

\* the counts passed to deal and burn, and the numbers of players
Counts == {-1, 0, 1, 3, 50, 53}

Players == {-1, 0, 2, 9, 27}

InitDeck ==
    /\ deck = newDeck
    /\ dealt = <<>>
    /\ burned = <<>>
    /\ calls = 0
    /\ IdleHand /\ IdleScore
    /\ op = "init" /\ ret = NoCall

\* what every deck call leaves alone, and the count of calls
DeckCall == calls < MaxCalls /\ calls' = calls + 1 /\ UNCHANGED <<handVars, scoreVars>>

DealOne ==
    /\ DeckCall
    /\ op' = "dealOne"
    /\ LET r == dealOne(deck)
       IN  /\ deck' = r.deck
           /\ dealt' = dealt \o Present(<<r.out>>)
           /\ ret' = Return(r.out)
    /\ UNCHANGED burned

Burn(num) ==
    /\ DeckCall
    /\ op' = "burn"
    /\ IF num < 0
       THEN ret' = Raise("NegativeCount") /\ UNCHANGED <<deck, dealt, burned>>
       ELSE LET r == burn(deck, num)
            IN  /\ deck' = r.deck
                /\ burned' = burned \o r.gone
                /\ ret' = Return(None)
                /\ UNCHANGED dealt

Deal(num) ==
    /\ DeckCall
    /\ op' = "deal"
    /\ IF num < 0
       THEN ret' = Raise("NegativeCount") /\ UNCHANGED <<deck, dealt, burned>>
       ELSE LET r == deal(deck, num)
            IN  /\ deck' = r.deck
                /\ dealt' = dealt \o Present(r.out)
                /\ ret' = Return(r.out)
                /\ UNCHANGED burned

DealPlayers(players) ==
    /\ DeckCall
    /\ op' = "dealPlayers"
    /\ IF players < 0
       THEN ret' = Raise("NegativeCount") /\ UNCHANGED <<deck, dealt, burned>>
       ELSE LET r == dealPlayers(deck, players)
            IN  /\ deck' = r.deck
                /\ dealt' = dealt \o Present(deal(deck, 2 * players).out)
                /\ ret' = Return(r.out)
                /\ UNCHANGED burned

DealFlop ==
    /\ DeckCall
    /\ op' = "dealFlop"
    /\ LET r == burnAndDeal(deck, 3)
       IN  /\ deck' = r.deck
           /\ burned' = burned \o r.gone
           /\ dealt' = dealt \o Present(r.out)
           /\ ret' = Return(r.out)

DealTurn ==
    /\ DeckCall
    /\ op' = "dealTurn"
    /\ LET r == burnAndDeal(deck, 1)
       IN  /\ deck' = r.deck
           /\ burned' = burned \o r.gone
           /\ dealt' = dealt \o Present(r.out)
           /\ ret' = Return(IF r.out # <<>> THEN r.out[1] ELSE None)

DealRiver ==
    /\ DeckCall
    /\ op' = "dealRiver"
    /\ LET r == burnAndDeal(deck, 1)
       IN  /\ deck' = r.deck
           /\ burned' = burned \o r.gone
           /\ dealt' = dealt \o Present(r.out)
           /\ ret' = Return(IF r.out # <<>> THEN r.out[1] ELSE None)

NextDeck ==
    \/ DealOne
    \/ \E num \in Counts : Burn(num)
    \/ \E num \in Counts : Deal(num)
    \/ \E players \in Players : DealPlayers(players)
    \/ DealFlop
    \/ DealTurn
    \/ DealRiver

SpecDeck == InitDeck /\ [][NextDeck]_vars

Reverse(s) == [i \in 1..Len(s) |-> s[Len(s) - i + 1]]

\* the entries a call returned, in the order in which they left the deck
ReturnedEntries(o, r) ==
    IF r.raised # "none" THEN <<>>
    ELSE CASE o \in {"dealOne", "dealTurn", "dealRiver"} -> <<r.value>>
           [] o \in {"deal", "dealFlop"} -> r.value
           [] o = "dealPlayers" ->
                [k \in 1..(2 * Len(r.value)) |->
                    r.value[((k - 1) % Len(r.value)) + 1][((k - 1) \div Len(r.value)) + 1]]
           [] OTHER -> <<>>

\* the cards returned, the cards burned and the deck partition the 52 cards
DeckPartition ==
    /\ Range(dealt) \cup Range(burned) \cup Range(deck) = Range(newDeck)
    /\ Len(dealt) + Len(burned) + Len(deck) = Len(newDeck)
    /\ Cardinality(Range(newDeck)) = 52

\* one call: the deck keeps a front part of itself; what left it, last element
\* first, is what the call burned and then what it returned; no returned card
\* was returned before; an empty deck stays empty and yields placeholders only
DeckStep ==
    LET removed == SubSeq(deck, Len(deck') + 1, Len(deck))
        newDealt == SubSeq(dealt', Len(dealt) + 1, Len(dealt'))
        newBurned == SubSeq(burned', Len(burned) + 1, Len(burned'))
        returned == ReturnedEntries(op', ret')
    IN  /\ Len(deck') <= Len(deck)
        /\ deck' = SubSeq(deck, 1, Len(deck'))
        /\ dealt = SubSeq(dealt', 1, Len(dealt))
        /\ burned = SubSeq(burned', 1, Len(burned))
        /\ Reverse(removed) = newBurned \o newDealt
        /\ Present(returned) = newDealt
        /\ Range(newDealt) \cap Range(dealt) = {}
        /\ deck = <<>> =>
               /\ deck' = <<>> /\ dealt' = dealt /\ burned' = burned
               /\ \A i \in DOMAIN returned : returned[i] = None
               /\ op' \in {"dealOne", "dealFlop", "dealTurn", "dealRiver"} => returned # <<>>

\* C10: from newDeck() on, after any calls of dealOne, deal, burn, dealPlayers,
\* dealFlop, dealTurn and dealRiver, the cards returned, the cards burned and the
\* deck partition the 52 cards; no card is returned twice, the deck never grows,
\* cards leave from its end, last element first; an empty deck stays empty: every
\* further deal returns the placeholder and burn does nothing.
C10_DeckPartition == []DeckPartition /\ [][DeckStep]_vars

\* the deck ran out in the middle of a flop: one card and two placeholders
C10_Witness ==
    /\ op = "dealFlop"
    /\ deck = <<>>
    /\ Len(ret.value) = 3
    /\ ret.value[1] # None /\ ret.value[2] = None /\ ret.value[3] = None
    /\ Len(burned) = 1
    /\ Len(dealt) = 51

====
